---------------------------- MODULE Spec2Model ----------------------------
(***************************************************************************)
(* A model of Smart_Media_Sampler.py (class MediaFileSelector): the        *)
(* resumable parallel copy engine with its resume file, the selection log  *)
(* and undo (specification Spec), the directory scan with its cache        *)
(* (SpecScan) and the balanced-by-count selection (SpecSelect).            *)
(***************************************************************************)
EXTENDS Integers, Sequences, FiniteSets, TLC

(***************************************************************************)
(* Bounds of the model.                                                    *)
(***************************************************************************)
\* max_workers of the ThreadPoolExecutor (a parameter of the program, default 4)
MaxWorkers == 2
\* number of top-level operations (runs of the copy, interrupts, undos) of a behaviour
MaxOps == 4

\* the largest value of the file system clock
MaxTime == 3
\* the largest number of source folders of a balanced selection
MaxDirs == 3
\* the largest number of files in one source folder
MaxPool == 3
\* the largest requested number of files
MaxRequested == 5

(***************************************************************************)
(* Program constants.                                                      *)
(***************************************************************************)
\* "if i % 10 == 0 or i == len(remaining_files)"
CheckpointEvery == 10

(***************************************************************************)
(* Paths.  A path is a record: root is the source folder ("S1", "S2") or   *)
(* the destination folder ("dest"), dir the name of the immediate parent   *)
(* directory below the root ("" when the file lies directly in the         *)
(* destination), name the file name, k the collision counter of the        *)
(* "_k" suffix put before the extension (0: no suffix).                    *)
(***************************************************************************)
Path(r, d, n, c) == [root |-> r, dir |-> d, name |-> n, k |-> c]

\* The source files a selection is drawn from: two files of the same name in
\* directories of different names, and a third file of another name.
SrcUniverse ==
    { Path("S1", "p", "x.jpg", 0), Path("S2", "q", "x.jpg", 0), Path("S2", "q", "y.jpg", 0) }

\* Files that may lie in the destination before the first operation.
PreCandidates == { Path("dest", "", "x.jpg", 0) }

\* The content of a file that was in the destination before the first operation.
PreContent == Path("pre", "", "", 0)

VARIABLES
    \* ---- inputs of the operation (fixed during a behaviour)
    selected_files,      \* the selection handed to copy_files_parallel (source paths)
    preserve_structure,  \* the preserve_structure flag
    unreadable,          \* the source files whose shutil.copy2 raises
    \* ---- the file system
    disk,                \* existing path -> content (the source file the bytes come from)
    resume,              \* the resume file operation_resume.json
    log,                 \* the log file selection_log.json
    \* ---- copy_files_parallel / randomly_select_and_copy_files, main thread
    pc,
    copied_files,        \* the set copied_files
    copied_count,
    errors,              \* the files whose task returned an error
    i,                   \* the counter of enumerate(as_completed(...), 1)
    remaining_files,
    task,                \* the state of copy_single_file for each file
    \* ---- history (not program state)
    created,             \* the destination paths written by shutil.copy2
    copies,              \* number of successful shutil.copy2 calls of the current run
    hist                 \* one record per finished top-level operation

VARIABLES
    \* ---- main / randomly_select_and_copy_files
    dry_run,
    dest_dir,            \* the destination folder exists
    seeded               \* history: the set loaded from the resume file at line 308

runVars == << dry_run, dest_dir, seeded >>

copyVars == << selected_files, preserve_structure, unreadable, disk, resume, log, pc,
               copied_files, copied_count, errors, i, remaining_files, task,
               created, copies, hist, dry_run, dest_dir, seeded >>

VARIABLES
    \* ---- collect_media_files_optimized (SpecScan)
    tree,                \* the regular files below the folder, at any depth
    folder_mtime,        \* st_mtime of the folder
    cache,               \* the file .media_cache.pkl in the folder
    now,                 \* the clock the file system stamps with
    last_scan            \* the last call: its arguments, the tree it saw, its result

scanVars == << tree, folder_mtime, cache, now, last_scan >>

VARIABLES
    \* ---- balanced selection of randomly_select_and_copy_files (SpecSelect)
    pools,               \* folder_files: the pool size of each folder, in iteration order
    requested,           \* num_files as passed in
    num_files,           \* num_files after the clamp of line 607
    sel_pc,
    idx,                 \* position of the loop over folder_files.items()
    remaining,           \* the variable remaining of the loop
    taken,               \* number of entries selected from each folder
    files_per_folder,
    scan_order           \* the position in source_folders of each key of folder_files

selVars == << pools, requested, num_files, sel_pc, idx, remaining, taken, files_per_folder,
              scan_order >>

VARIABLES
    \* ---- select_by_total_size (SpecSize)
    size_files,          \* files_data: the entries, each with its parent folder and size
    target_bytes,
    balanced,
    size_pc,
    folders_left,        \* the keys of folder_groups the outer loop has not reached yet
    todo,                \* the entries the running loop has not reached yet
    running_size,        \* folder_size (balanced) or total_size (unbalanced)
    size_per_folder,
    size_selected,       \* selected_files of select_by_total_size
    last_size            \* history: the size of the entry accepted last (0 when none)

sizeVars == << size_files, target_bytes, balanced, size_pc, folders_left, todo,
               running_size, size_per_folder, size_selected, last_size >>

VARIABLES
    \* ---- parse_size and the size constraints of apply_filters (SpecParse)
    size_str,            \* the size string, a sequence of characters
    parse_pc,
    parse_result,        \* what parse_size(size_str) returned
    constraint,          \* the filter key that holds size_str: min_size or max_size
    other_size,          \* the string of the other key (empty: not set)
    filter_result        \* what apply_filters returned

parseVars == << size_str, parse_pc, parse_result, constraint, other_size,
                filter_result >>

VARIABLES
    \* ---- the loop over as_completed of copy_files_parallel, by counts (SpecCadence)
    n_remaining,         \* len(remaining_files)
    resume_set,          \* resume_file is not None
    n_queued,            \* submitted tasks that have not ended
    n_ok,                \* ended tasks with a destination path, not yet taken
    n_err,               \* ended tasks with an error, not yet taken
    n_done,              \* the counter i of enumerate(as_completed(...), 1)
    n_errors,            \* len(errors)
    cad_pc,
    saves                \* history: the values of i at which the resume file was written

cadVars == << n_remaining, resume_set, n_queued, n_ok, n_err, n_done, n_errors,
              cad_pc, saves >>

VARIABLES
    \* ---- the concurrent scan of randomly_select_and_copy_files (SpecMulti)
    scan_outcome,        \* how collect_media_files_optimized ends for each source folder
    scan_found,          \* the number of media files each source folder holds
    pending_scans,       \* the futures as_completed has not yielded yet
    folder_files,        \* folder_files: source folder -> entries
    all_files_data,      \* all_files_data
    stat_i,              \* position of the statistics loop of lines 585-590
    run_pc

multiVars == << scan_outcome, scan_found, pending_scans, folder_files, all_files_data,
                stat_i, run_pc >>

extraVars == << sizeVars, parseVars, cadVars, multiVars >>

vars == << copyVars, scanVars, selVars, extraVars >>


(***************************************************************************)
(* The copy engine: copy_files_parallel and copy_single_file.              *)
(***************************************************************************)
Exists(p) == p \in DOMAIN disk

\* disk after shutil.copy2(src, dst): dst holds the bytes of src, whatever it held
WriteFile(d, dst, src) == [p \in (DOMAIN d) \cup {dst} |-> IF p = dst THEN src ELSE d[p]]

\* disk after unlinking the paths gone
RemoveFiles(d, gone) == [p \in (DOMAIN d) \ gone |-> d[p]]

\* get_destination_path: dest/<parent name>/<name> with preserve_structure, else dest/<name>
get_destination_path(file_path) ==
    Path("dest", IF preserve_structure THEN file_path.dir ELSE "", file_path.name, 0)

\* original_dest.parent / f"{stem}_{counter}{suffix}"
Suffixed(original_dest, counter) == [original_dest EXCEPT !.k = counter]

NoFile == [kind |-> "none", copied_files |-> {}]
\* the resume file after open(resume_file, 'w') and before json.dump has finished
PartialFile == [kind |-> "partial", copied_files |-> {}]
StateFile(c) == [kind |-> "state", copied_files |-> c]

NoLog == [present |-> FALSE, files |-> {}]

\* load_operation_state and lines 304-309: the copied_files a run starts with
\* (json.load raises on a file that is not complete JSON, and None is returned)
LoadedCopied == IF resume.kind = "state" THEN resume.copied_files ELSE {}

\* Remaining without the filter of lines 312-317: every selected file is submitted
Remaining_All(loaded) == selected_files

\* Remaining without the test "not dest_file.exists()" of line 316
Remaining_NoDiskCheck(loaded) ==
    { f \in selected_files : get_destination_path(f) \notin loaded }

\* lines 311-317: the files that are submitted to the pool
Remaining(loaded) ==
    { f \in selected_files :
        get_destination_path(f) \notin loaded /\ ~Exists(get_destination_path(f)) }

IdleTask(f) == [st |-> "idle", dest |-> get_destination_path(f)]

Running == { f \in selected_files : task[f].st \in {"check", "copy"} }

\* all paths on disk below the destination folder
DestFiles == { p \in DOMAIN disk : p.root = "dest" }

HistRec(op, files, n, cnt, hadLog, ok, deleted, failed) ==
    [op |-> op, files |-> files, copies |-> n, count |-> cnt, hadLog |-> hadLog,
     ok |-> ok, deleted |-> deleted, failed |-> failed]

NoCache == [present |-> FALSE, mtime |-> 0, files |-> {}]
NoScan == [done |-> FALSE, use_cache |-> FALSE, filters |-> {}, tree |-> {},
           result |-> {}, used_cache |-> FALSE]

\* the variables of the scan and of the selection, where they play no part
ScanOff ==
    /\ tree = {} /\ folder_mtime = 0 /\ cache = NoCache /\ now = 0 /\ last_scan = NoScan
SelectOff ==
    /\ pools = << >> /\ requested = 0 /\ num_files = 0 /\ sel_pc = "off" /\ idx = 0
    /\ remaining = 0 /\ taken = << >> /\ files_per_folder = 0 /\ scan_order = << >>

SizeOff ==
    /\ size_files = {} /\ target_bytes = 0 /\ balanced = FALSE /\ size_pc = "off"
    /\ folders_left = {} /\ todo = {} /\ running_size = 0 /\ size_per_folder = 0
    /\ size_selected = {} /\ last_size = 0

\* the value n * 1024^pow that parse_size returns, kept as the pair (1024^4 is
\* beyond the integers of TLC), and whether the warning was printed
Bytes(n, pow, warned) == [n |-> n, pow |-> pow, warned |-> warned]

ParseOff ==
    /\ size_str = << >> /\ parse_pc = "off" /\ parse_result = Bytes(0, 0, FALSE)
    /\ constraint = "none" /\ other_size = << >> /\ filter_result = {}

CadOff ==
    /\ n_remaining = 0 /\ resume_set = FALSE /\ n_queued = 0 /\ n_ok = 0 /\ n_err = 0
    /\ n_done = 0 /\ n_errors = 0 /\ cad_pc = "off" /\ saves = {}

MultiOff ==
    /\ scan_outcome = << >> /\ scan_found = << >> /\ pending_scans = {}
    /\ folder_files = << >> /\ all_files_data = {} /\ stat_i = 0 /\ run_pc = "off"

ExtraOff == SizeOff /\ ParseOff /\ CadOff /\ MultiOff

CopyOff ==
    /\ selected_files = {} /\ preserve_structure = FALSE /\ unreadable = {}
    /\ disk = << >> /\ resume = NoFile /\ log = NoLog /\ pc = "off"
    /\ copied_files = {} /\ copied_count = 0 /\ errors = {} /\ i = 0
    /\ remaining_files = {} /\ task = << >> /\ created = {} /\ copies = 0
    /\ hist = << >> /\ dry_run = FALSE /\ dest_dir = FALSE /\ seeded = {}

Init ==
    /\ selected_files \in (SUBSET SrcUniverse) \ {{}}
    /\ preserve_structure \in BOOLEAN
    /\ unreadable \in SUBSET selected_files
    /\ dry_run \in BOOLEAN
    /\ dest_dir \in BOOLEAN
    /\ seeded = {}
    /\ \E pre \in SUBSET PreCandidates :
          /\ pre # {} => dest_dir
          /\ disk = [p \in SrcUniverse \cup pre |-> IF p \in pre THEN PreContent ELSE p]
    /\ resume = NoFile
    /\ log = NoLog
    /\ pc = "idle"
    /\ copied_files = {}
    /\ copied_count = 0
    /\ errors = {}
    /\ i = 0
    /\ remaining_files = {}
    /\ task = [f \in selected_files |-> IdleTask(f)]
    /\ created = {}
    /\ copies = 0
    /\ hist = << >>
    /\ ScanOff
    /\ SelectOff
    /\ ExtraOff

\* main, lines 820-828 (command-line mode: the destination folder is created when it
\* is missing), or a direct call; then randomly_select_and_copy_files with dry_run,
\* lines 538-549 and 638-652: no folder is created and the selection is reported
DryRun(via_main) ==
    /\ pc = "idle"
    /\ dry_run
    /\ Len(hist) < MaxOps
    /\ dest_dir' = (via_main \/ dest_dir)
    /\ hist' = Append(hist, HistRec("dry", DOMAIN disk, 0, Cardinality(selected_files),
                                    log.present, TRUE, {}, {}))
    /\ UNCHANGED << selected_files, preserve_structure, unreadable, disk, resume, log,
                    pc, copied_files, copied_count, errors, i, remaining_files, task,
                    created, copies, dry_run, seeded >>

\* randomly_select_and_copy_files without dry_run, lines 538-545 (the destination
\* folder is created), then copy_files_parallel, lines 300-326: load the resume state,
\* filter out the files taken as already copied, submit the rest (or return at once
\* when none is left)
StartCopy ==
    /\ pc = "idle"
    /\ ~dry_run
    /\ Len(hist) < MaxOps
    /\ dest_dir' = TRUE
    /\ seeded' = LoadedCopied
    /\ UNCHANGED dry_run
    /\ LET loaded == LoadedCopied
           rem == Remaining(loaded)
       IN /\ copied_files' = loaded
          /\ remaining_files' = rem
          /\ errors' = {}
          /\ i' = 0
          /\ copies' = 0
          /\ IF rem = {}
             THEN /\ copied_count' = Cardinality(selected_files)
                  /\ pc' = "returned"
                  /\ task' = [f \in selected_files |-> IdleTask(f)]
             ELSE /\ copied_count' = Cardinality(loaded)
                  /\ pc' = "collect"
                  /\ task' = [f \in selected_files |->
                                IF f \in rem THEN [IdleTask(f) EXCEPT !.st = "queued"]
                                ELSE IdleTask(f)]
    /\ UNCHANGED << selected_files, preserve_structure, unreadable, disk, resume, log,
                    created, hist >>

PoolAlive == pc \in {"collect", "save_open", "save_write"}

\* lines 337-343 with the counter left out of the candidate name
CheckExists_SameCandidate(f) ==
    /\ PoolAlive
    /\ \/ task[f].st = "check"
       \/ task[f].st = "queued" /\ Cardinality(Running) < MaxWorkers
    /\ task' = [task EXCEPT ![f] =
                 IF Exists(task[f].dest)
                 THEN [st |-> "check", dest |-> task[f].dest]
                 ELSE [st |-> "copy", dest |-> task[f].dest]]
    /\ UNCHANGED << selected_files, preserve_structure, unreadable, disk, resume, log, pc,
                    copied_files, copied_count, errors, i, remaining_files, created,
                    copies, hist >>

\* copy_single_file, lines 330-343: one evaluation of dest_file.exists(); a queued
\* task makes its first one when a worker of the pool is free
CheckExists(f) ==
    /\ PoolAlive
    /\ \/ task[f].st = "check"
       \/ task[f].st = "queued" /\ Cardinality(Running) < MaxWorkers
    /\ task' = [task EXCEPT ![f] =
                 IF Exists(task[f].dest)
                 THEN [st |-> "check",
                       dest |-> Suffixed(get_destination_path(f), task[f].dest.k + 1)]
                 ELSE [st |-> "copy", dest |-> task[f].dest]]
    /\ UNCHANGED << selected_files, preserve_structure, unreadable, disk, resume, log, pc,
                    copied_files, copied_count, errors, i, remaining_files, created,
                    copies, hist >>

\* copy_single_file with the worker adding its destination to copied_files itself
CopyFile_AddsToCopied(f) ==
    /\ PoolAlive
    /\ task[f].st = "copy"
    /\ copied_files' = copied_files \cup {task[f].dest}
    /\ IF Exists(f) /\ f \notin unreadable
       THEN /\ disk' = WriteFile(disk, task[f].dest, f)
            /\ created' = created \cup {task[f].dest}
            /\ copies' = copies + 1
            /\ task' = [task EXCEPT ![f].st = "ok"]
       ELSE /\ task' = [task EXCEPT ![f].st = "err"]
            /\ UNCHANGED << disk, created, copies >>
    /\ UNCHANGED << selected_files, preserve_structure, unreadable, resume, log, pc,
                    copied_count, errors, i, remaining_files, hist >>

\* copy_single_file, lines 345-349: shutil.copy2 to the name chosen, or the exception
CopyFile(f) ==
    /\ PoolAlive
    /\ task[f].st = "copy"
    /\ IF Exists(f) /\ f \notin unreadable
       THEN /\ disk' = WriteFile(disk, task[f].dest, f)
            /\ created' = created \cup {task[f].dest}
            /\ copies' = copies + 1
            /\ task' = [task EXCEPT ![f].st = "ok"]
       ELSE /\ task' = [task EXCEPT ![f].st = "err"]
            /\ UNCHANGED << disk, created, copies >>
    /\ UNCHANGED << selected_files, preserve_structure, unreadable, resume, log, pc,
                    copied_files, copied_count, errors, i, remaining_files, hist >>

\* line 367 without its second disjunct
IsCheckpoint_NoFinal(n, total) == n % CheckpointEvery = 0

\* line 367: i % 10 == 0 or i == len(remaining_files)
IsCheckpoint(n, total) == n % CheckpointEvery = 0 \/ n = total

\* lines 367: the checkpoint condition
CheckpointDue(n) == IsCheckpoint(n, Cardinality(remaining_files))

\* lines 356-367 with the loop left at the first error
Collect_AbortOnError(f) ==
    /\ pc = "collect"
    /\ task[f].st \in {"ok", "err"}
    /\ task' = [task EXCEPT ![f].st = "collected"]
    /\ IF task[f].st = "err"
       THEN /\ errors' = errors \cup {f}
            /\ i' = Cardinality(remaining_files)
            /\ pc' = "save_open"
            /\ UNCHANGED << copied_files, copied_count >>
       ELSE /\ copied_files' = copied_files \cup {task[f].dest}
            /\ copied_count' = copied_count + 1
            /\ i' = i + 1
            /\ pc' = IF CheckpointDue(i + 1) THEN "save_open" ELSE "collect"
            /\ UNCHANGED errors
    /\ UNCHANGED << selected_files, preserve_structure, unreadable, disk, resume, log,
                    remaining_files, created, copies, hist >>

\* lines 356-367: the main thread takes the result of a completed future
Collect(f) ==
    /\ pc = "collect"
    /\ task[f].st \in {"ok", "err"}
    /\ i' = i + 1
    /\ task' = [task EXCEPT ![f].st = "collected"]
    /\ IF task[f].st = "err"
       THEN /\ errors' = errors \cup {f}
            /\ UNCHANGED << copied_files, copied_count >>
       ELSE /\ copied_files' = copied_files \cup {task[f].dest}
            /\ copied_count' = copied_count + 1
            /\ UNCHANGED errors
    /\ pc' = IF CheckpointDue(i + 1) THEN "save_open" ELSE "collect"
    /\ UNCHANGED << selected_files, preserve_structure, unreadable, disk, resume, log,
                    remaining_files, created, copies, hist >>

\* save_operation_state, line 226: open(resume_file, 'w') truncates the file
SaveOpen ==
    /\ pc = "save_open"
    /\ resume' = PartialFile
    /\ pc' = "save_write"
    /\ UNCHANGED << selected_files, preserve_structure, unreadable, disk, log,
                    copied_files, copied_count, errors, i, remaining_files, task,
                    created, copies, hist >>

\* save_operation_state, lines 228-237: json.dump and close; then the loop goes on,
\* or ends and copy_files_parallel returns (line 380)
SaveWrite ==
    /\ pc = "save_write"
    /\ resume' = StateFile(copied_files)
    /\ pc' = IF i = Cardinality(remaining_files) THEN "returned" ELSE "collect"
    /\ UNCHANGED << selected_files, preserve_structure, unreadable, disk, log,
                    copied_files, copied_count, errors, i, remaining_files, task,
                    created, copies, hist >>

\* save_selection_log, line 407: str(f['path']) of every selected file
LogFiles == selected_files

\* randomly_select_and_copy_files, line 667, and save_selection_log
SaveLog ==
    /\ pc = "returned"
    /\ log' = [present |-> TRUE, files |-> LogFiles]
    /\ pc' = "logged"
    /\ UNCHANGED << selected_files, preserve_structure, unreadable, disk, resume,
                    copied_files, copied_count, errors, i, remaining_files, task,
                    created, copies, hist >>

\* lines 679-687 with the resume file removed whatever the errors
Cleanup_Always ==
    /\ pc = "logged"
    /\ resume' = NoFile
    /\ pc' = "idle"
    /\ hist' = Append(hist, HistRec("run", DOMAIN disk, copies, copied_count,
                                    log.present, TRUE, {}, {}))
    /\ UNCHANGED << selected_files, preserve_structure, unreadable, disk, log,
                    copied_files, copied_count, errors, i, remaining_files, task,
                    created, copies >>

\* randomly_select_and_copy_files, lines 679-687: the resume file is removed when
\* no error was recorded; the operation is complete
Cleanup ==
    /\ pc = "logged"
    /\ resume' = IF resume.kind # "none" /\ errors = {} THEN NoFile ELSE resume
    /\ pc' = "idle"
    /\ hist' = Append(hist, HistRec("run", DOMAIN disk, copies, copied_count,
                                    log.present, TRUE, {}, {}))
    /\ UNCHANGED << selected_files, preserve_structure, unreadable, disk, log,
                    copied_files, copied_count, errors, i, remaining_files, task,
                    created, copies >>

\* The process is stopped from outside while an operation runs: what is in memory
\* is lost, what is on disk stays.
Interrupt ==
    /\ pc # "idle"
    /\ pc' = "idle"
    /\ copied_files' = {}
    /\ copied_count' = 0
    /\ errors' = {}
    /\ i' = 0
    /\ remaining_files' = {}
    /\ task' = [f \in selected_files |-> IdleTask(f)]
    /\ hist' = Append(hist, HistRec("int", DOMAIN disk, copies, 0, log.present,
                                    FALSE, {}, {}))
    /\ UNCHANGED << selected_files, preserve_structure, unreadable, disk, resume, log,
                    created, copies >>

(***************************************************************************)
(* undo_last_operation                                                     *)
(***************************************************************************)
\* undo without a log that falls back on the resume file: it unlinks the paths
\* recorded there and the resume file
UndoNoLog_UsesResume ==
    /\ pc = "idle"
    /\ Len(hist) < MaxOps
    /\ ~log.present
    /\ LET deleted == LoadedCopied \cap DOMAIN disk
       IN /\ disk' = RemoveFiles(disk, deleted)
          /\ hist' = Append(hist, HistRec("undo", DOMAIN disk', 0, Cardinality(deleted),
                                          FALSE, FALSE, deleted, {}))
    /\ resume' = NoFile
    /\ UNCHANGED << selected_files, preserve_structure, unreadable, log, pc,
                    copied_files, copied_count, errors, i, remaining_files, task,
                    created, copies >>

\* lines 19-22: no log file, nothing is done and False is returned
UndoNoLog ==
    /\ pc = "idle"
    /\ Len(hist) < MaxOps
    /\ ~log.present
    /\ hist' = Append(hist, HistRec("undo", DOMAIN disk, 0, 0, FALSE, FALSE, {}, {}))
    /\ UNCHANGED << selected_files, preserve_structure, unreadable, disk, resume, log, pc,
                    copied_files, copied_count, errors, i, remaining_files, task,
                    created, copies >>

\* undo that unlinks the log file inside the try block of the file loop, so that
\* the log file stays when the unlink of a listed path raised
UndoWithLog_KeepsLogOnFailure ==
    /\ pc = "idle"
    /\ Len(hist) < MaxOps
    /\ log.present
    /\ \E failed \in SUBSET (log.files \cap DOMAIN disk) :
          LET deleted == (log.files \cap DOMAIN disk) \ failed
          IN /\ disk' = RemoveFiles(disk, deleted)
             /\ hist' = Append(hist, HistRec("undo", DOMAIN disk', 0, Cardinality(deleted),
                                             TRUE, TRUE, deleted, failed))
             /\ log' = IF failed = {} THEN NoLog ELSE log
    /\ UNCHANGED << selected_files, preserve_structure, unreadable, resume, pc,
                    copied_files, copied_count, errors, i, remaining_files, task,
                    created, copies >>

\* lines 23-42: every listed path that exists is unlinked (failed: the paths whose
\* unlink raises), then the log file is unlinked (this unlink is taken to succeed)
\* and True is returned
UndoWithLog ==
    /\ pc = "idle"
    /\ Len(hist) < MaxOps
    /\ log.present
    /\ \E failed \in SUBSET (log.files \cap DOMAIN disk) :
          LET deleted == (log.files \cap DOMAIN disk) \ failed
          IN /\ disk' = RemoveFiles(disk, deleted)
             /\ hist' = Append(hist, HistRec("undo", DOMAIN disk', 0, Cardinality(deleted),
                                             TRUE, TRUE, deleted, failed))
    /\ log' = NoLog
    /\ UNCHANGED << selected_files, preserve_structure, unreadable, resume, pc,
                    copied_files, copied_count, errors, i, remaining_files, task,
                    created, copies >>

Next ==
    \/ (\E via_main \in BOOLEAN : DryRun(via_main))
          /\ UNCHANGED << scanVars, selVars, extraVars >>
    \/ StartCopy /\ UNCHANGED << scanVars, selVars, extraVars >>
    \/ (\E f \in selected_files : CheckExists(f)) /\ UNCHANGED << scanVars, selVars, extraVars, runVars >>
    \/ (\E f \in selected_files : CopyFile(f)) /\ UNCHANGED << scanVars, selVars, extraVars, runVars >>
    \/ (\E f \in selected_files : Collect(f)) /\ UNCHANGED << scanVars, selVars, extraVars, runVars >>
    \/ SaveOpen /\ UNCHANGED << scanVars, selVars, extraVars, runVars >>
    \/ SaveWrite /\ UNCHANGED << scanVars, selVars, extraVars, runVars >>
    \/ SaveLog /\ UNCHANGED << scanVars, selVars, extraVars, runVars >>
    \/ Cleanup /\ UNCHANGED << scanVars, selVars, extraVars, runVars >>
    \/ Interrupt /\ UNCHANGED << scanVars, selVars, extraVars, runVars >>
    \/ UndoNoLog /\ UNCHANGED << scanVars, selVars, extraVars, runVars >>
    \/ UndoWithLog /\ UNCHANGED << scanVars, selVars, extraVars, runVars >>

Spec == Init /\ [][Next]_vars


(***************************************************************************)
(* Properties of the copy engine, the selection log and undo.              *)
(***************************************************************************)
LastOp == hist[Len(hist)]

\* the destination paths among a set of paths
DestOf(files) == { p \in files : p.root = "dest" }

\* the destination paths that hold a copy of source file f
CopiesOf(f) == { p \in DestFiles : disk[p] = f }

\* no file lay in the destination before the first operation
DestWasEmpty == \A p \in DestFiles : disk[p] # PreContent

\* the operations so far are interrupted runs followed by one completed run
InterruptedThenCompleted ==
    /\ Len(hist) >= 2
    /\ LastOp.op = "run"
    /\ \A k \in 1..(Len(hist) - 1) : hist[k].op = "int"

\* C1: when copy runs with two or more workers on two distinct source files of the
\* same basename that resolve to the same destination directory, both files end up
\* on disk at two distinct destination paths and neither overwrites the other.
C1_CollisionSafe ==
    (/\ pc = "idle" /\ Len(hist) = 1 /\ hist[1].op = "run"
     /\ unreadable = {} /\ DestWasEmpty /\ MaxWorkers >= 2)
    => \A f, g \in selected_files :
          (f # g /\ get_destination_path(f) = get_destination_path(g))
          => \E p \in CopiesOf(f), q \in CopiesOf(g) : p # q

\* C2: every path listed in the files field of the selection log is a destination
\* path that the copy engine wrote.
C2_LogListsWrittenPaths ==
    (pc = "idle" /\ Len(hist) >= 1 /\ LastOp.op = "run" /\ log.present /\ DestWasEmpty)
    => log.files \subseteq created

\* C3: undo after a completed copy deletes only files that the copy created; every
\* selected source file still exists after undo.
C3_UndoKeepsSources ==
    \A k \in 2..Len(hist) :
        (hist[k].op = "undo" /\ hist[k - 1].op = "run" /\ hist[k - 1].copies >= 1)
        => (hist[k].deleted \subseteq created /\ selected_files \subseteq hist[k].files)

\* C4: a copy interrupted after half of the selected files were copied and rerun
\* copies the remaining half, and the log then lists the destination path of every
\* selected file.
C4_ResumedLogComplete ==
    (/\ pc = "idle" /\ Len(hist) = 2 /\ hist[1].op = "int" /\ hist[2].op = "run"
     /\ 2 * hist[1].copies = Cardinality(selected_files)
     /\ unreadable = {} /\ DestWasEmpty
     /\ \A f, g \in selected_files :
           f # g => get_destination_path(f) # get_destination_path(g))
    => /\ hist[2].copies = Cardinality(selected_files) - hist[1].copies
       /\ log.present
       /\ log.files \subseteq DestFiles
       /\ \A f \in selected_files : \E p \in log.files : p \in CopiesOf(f)

\* C5: after an interrupt at any point and a rerun with the same parameters, every
\* selected source file has exactly one copy in the destination.
C5_RerunExactlyOnce ==
    (pc = "idle" /\ InterruptedThenCompleted /\ unreadable = {} /\ DestWasEmpty)
    => \A f \in selected_files : Cardinality(CopiesOf(f)) = 1

\* C6: the second of two runs in sequence with the same selection and destination
\* leaves the destination with the same set of files as the first and copies no file.
C6_SecondRunCopiesNothing ==
    \A k \in 2..Len(hist) :
        (hist[k].op = "run" /\ hist[k - 1].op = "run")
        => (DestOf(hist[k].files) = DestOf(hist[k - 1].files) /\ hist[k].copies = 0)

\* the first run stored a file under a suffixed name, and a second run followed it
C6_Witness ==
    /\ Len(hist) >= 2 /\ hist[1].op = "run" /\ hist[2].op = "run"
    /\ hist[1].copies >= 2
    /\ \E p \in DestOf(hist[1].files) : p.k >= 1

\* a step of undo_last_operation
UndoStep == Len(hist') = Len(hist) + 1 /\ hist'[Len(hist')].op = "undo"

C13_DryRunLeavesDestination ==
    [][(Len(hist') = Len(hist) + 1 /\ hist'[Len(hist')].op = "dry")
       => /\ dest_dir' = dest_dir
          /\ disk' = disk
          /\ resume' = resume
          /\ log' = log]_vars

\* C14: the resume file exists once the operation has written a checkpoint; it is
\* deleted exactly when the whole operation completes with no recorded copy error;
\* after an operation with at least one recorded error it is still present and holds
\* the destination paths copied so far.
C14_ResumeLifecycle ==
    /\ []( /\ (pc \in {"returned", "logged"} /\ remaining_files # {})
              => resume.kind = "state"
           /\ (pc = "idle" /\ Len(hist) > 0 /\ LastOp.op = "run")
              => /\ errors = {} => resume.kind = "none"
                 /\ errors # {}
                    => /\ resume.kind = "state"
                       /\ resume.copied_files = copied_files
                       /\ \A f \in remaining_files \ errors :
                             task[f].dest \in resume.copied_files )
    /\ [][(resume.kind # "none" /\ resume'.kind = "none")
          => (pc = "logged" /\ pc' = "idle" /\ errors = {})]_vars

\* a completed operation in which one file failed and another was copied
C14_Witness ==
    /\ pc = "idle" /\ Len(hist) > 0 /\ LastOp.op = "run"
    /\ errors # {}
    /\ \E f \in remaining_files \ errors : task[f].dest \in DOMAIN disk
    /\ resume.kind = "state"

\* the remaining files whose copy fails: shutil.copy2 raises for them
Failing == { f \in remaining_files : f \in unreadable \/ f \notin DOMAIN disk }

\* C15: a failing copy is recorded and prevents the copy of no other file: for every
\* subset of failing files, every other remaining file is copied, and the number of
\* recorded errors is the number of failing files.
C15_FailureIsolated ==
    (pc \in {"returned", "logged"} /\ remaining_files # {})
    => /\ \A f \in remaining_files \ Failing :
             task[f].st = "collected" /\ task[f].dest \in created
       /\ copies = Cardinality(remaining_files \ Failing)
       /\ Cardinality(errors) = Cardinality(Failing)
       /\ errors = Failing

\* an operation over three files of which one fails and two are copied
C15_Witness ==
    /\ pc = "returned"
    /\ Cardinality(remaining_files) = 3
    /\ Cardinality(Failing) = 1
    /\ copies = 2

\* C16: a selected file whose unsuffixed destination path is occupied by a file that
\* was in the destination before the operation is still copied, under the name with
\* _k for the smallest k >= 1 whose path is unused, and the file that was there is
\* left unchanged (here: the first operation, a readable file, k = 1).
C16_PreexistingSuffixed ==
    (pc = "returned" /\ Len(hist) = 0)
    => \A f \in selected_files \ unreadable :
          LET dest_file == get_destination_path(f)
          IN (dest_file \in DOMAIN disk /\ disk[dest_file] = PreContent)
             => /\ Suffixed(dest_file, 1) \in DOMAIN disk
                /\ disk[Suffixed(dest_file, 1)] = f

\* line 321 and line 380: copy_files_parallel returns the count and the error list
CopyReturn == [copied_count |-> copied_count, errors |-> errors]

\* the destination paths of the operation: those written in this run and those taken
\* as already copied (loaded from the resume file or found on disk)
Accumulated ==
    copied_files \cup { get_destination_path(f) : f \in selected_files \ remaining_files }

\* C19: copy returns the full accumulated set of destination paths of the operation,
\* the paths written in this run together with those taken as already copied.
C19_ReturnsAccumulatedPaths ==
    (pc = "returned" /\ copies >= 1)
    => /\ "copied_files" \in DOMAIN CopyReturn
       /\ CopyReturn["copied_files"] = Accumulated

\* a selected entry has a copy in the destination: a destination file holds its bytes,
\* or the path it resolves to exists
HasCopy(f) == CopiesOf(f) # {} \/ Exists(get_destination_path(f))

\* C30: after any sequence of interrupted runs and reruns, the count that copy returns
\* is the number of selected entries that have a copy in the destination, and it is
\* never larger than the number of selected entries.
C30_CountIsCopiesInDestination ==
    pc = "returned"
    => /\ CopyReturn.copied_count = Cardinality({ f \in selected_files : HasCopy(f) })
       /\ CopyReturn.copied_count <= Cardinality(selected_files)

\* the destination paths of the tasks whose successful completion the loop of lines
\* 356-365 has taken
Processed ==
    { task[f].dest : f \in { g \in remaining_files :
                                task[g].st = "collected" /\ g \notin errors } }

\* C21: in every interleaving of the copy workers, each checkpoint persists exactly
\* the paths seeded from the loaded resume state plus the destination paths of the
\* tasks whose successful completion has been processed so far; copied_files is
\* changed only by the completion handling, never by a worker, and no checkpoint
\* records a path whose copy has not finished or has failed.
C21_CheckpointConsistent ==
    /\ []( PoolAlive => copied_files = seeded \cup Processed )
    /\ [][(pc = "save_write" /\ pc' \notin {"save_write", "idle"})
          => /\ resume'.kind = "state"
             /\ resume'.copied_files = seeded \cup Processed
             /\ resume'.copied_files \ seeded \subseteq created]_vars
    /\ [][(PoolAlive /\ i' = i /\ pc' # "idle") => copied_files' = copied_files]_vars

\* C22: the save of the resume state is all or nothing: at every instant, also when
\* the process is interrupted during the save, the resume file is absent or holds a
\* complete saved state, never a partial or empty file.
C22_SaveAllOrNothing ==
    resume.kind \in {"none", "state"}

\* C23: on engine start a selected entry is submitted for copying only if its
\* destination path is neither in the set loaded from the resume state nor present on
\* disk; the other entries are taken as done and are not copied again.
C23_SubmitOnlyMissing ==
    /\ [][(pc = "idle" /\ pc' \in {"collect", "returned"})
          => remaining_files'
               = { f \in selected_files :
                     /\ get_destination_path(f) \notin
                           (IF resume.kind = "state" THEN resume.copied_files ELSE {})
                     /\ get_destination_path(f) \notin DOMAIN disk }]_vars
    /\ []( pc \notin {"idle", "off"}
           => \A f \in selected_files \ remaining_files : task[f].st = "idle" )

\* an operation that found one entry recorded in the resume file, left it alone and
\* submitted another
C23_Witness ==
    /\ pc = "returned"
    /\ \E f \in selected_files \ remaining_files :
          get_destination_path(f) \in seeded /\ task[f].st = "idle"
    /\ remaining_files # {}


(***************************************************************************)
(* collect_media_files_optimized: the scan of one folder and its cache.    *)
(* A file of the tree is a record: depth 1 for a file directly in the      *)
(* folder, depth 2 for a file in a subdirectory of it.                     *)
(***************************************************************************)
File(d, n, sfx) == [depth |-> d, name |-> n, suffix |-> sfx]

FileUniverse ==
    { File(1, "a", ".gif"), File(2, "b", ".JPG"), File(2, "c", ".mp4"), File(1, "n", ".txt") }

\* the cache file cache_file = folder / '.media_cache.pkl'
CacheFile == File(1, ".media_cache", ".pkl")

\* self.media_extensions
media_extensions ==
    { ".jpg", ".jpeg", ".png", ".gif", ".mp4", ".bmp", ".tiff", ".webp",
      ".mov", ".avi", ".mkv", ".webm", ".m4v", ".flv",
      ".svg", ".ico", ".heic", ".heif" }

\* str.lower() on the suffixes of the model
Lower(sfx) ==
    CASE sfx = ".JPG" -> ".jpg"
      [] sfx = ".PNG" -> ".png"
      [] sfx = ".MP4" -> ".mp4"
      [] OTHER -> sfx

\* get_media_metadata: the 'type' of a file
get_media_metadata(file_path) ==
    IF Lower(file_path.suffix) \in {".jpg", ".jpeg", ".png", ".bmp", ".tiff", ".webp"}
    THEN "image"
    ELSE IF Lower(file_path.suffix) \in {".mp4", ".mov", ".avi", ".mkv", ".webm", ".m4v", ".flv"}
         THEN "video"
         ELSE "other"

\* the file_info of lines 85-94 (size and dates are fixed for a file and left out)
FileInfo(file_path) ==
    [path |-> file_path, extension |-> Lower(file_path.suffix),
     type |-> get_media_metadata(file_path)]

\* lines 80-102 with the suffix compared as it is spelled
Walk_CaseSensitive ==
    { FileInfo(f) : f \in { g \in tree \cup (IF cache.present THEN {CacheFile} ELSE {}) :
                             g.suffix \in media_extensions } }

\* lines 81-95: folder.rglob('*') over everything below the folder, the cache file
\* included, keeping the files whose lower-cased suffix is a media extension
Walk ==
    { FileInfo(f) : f \in { g \in tree \cup (IF cache.present THEN {CacheFile} ELSE {}) :
                             Lower(g.suffix) \in media_extensions } }

\* apply_filters with a filter that holds at most 'file_types' (the set of allowed
\* extensions; the empty set is no filter)
apply_filters(files_data, filters) ==
    IF filters = {} THEN files_data
    ELSE { f \in files_data : f.extension \in filters }

FilterChoices == { {}, {".jpg"} }

\* line 69 with >= in place of >
CacheValid_NotOlder == cache.present /\ cache.mtime >= folder_mtime

\* line 65-69: the cache is used when it exists and is strictly newer than the folder
CacheValid == cache.present /\ cache.mtime > folder_mtime

InitScan ==
    /\ tree \in SUBSET FileUniverse
    /\ folder_mtime = 0
    /\ cache = NoCache
    /\ now = 0
    /\ last_scan = NoScan
    /\ CopyOff
    /\ SelectOff
    /\ ExtraOff

\* a file is created below the folder; a file directly in the folder changes the
\* folder's st_mtime, a file in a subdirectory changes the subdirectory's
AddFile(f) ==
    /\ f \in FileUniverse \ tree
    /\ tree' = tree \cup {f}
    /\ folder_mtime' = IF f.depth = 1 THEN now ELSE folder_mtime
    /\ UNCHANGED << cache, now, last_scan >>

RemoveFile(f) ==
    /\ f \in tree
    /\ tree' = tree \ {f}
    /\ folder_mtime' = IF f.depth = 1 THEN now ELSE folder_mtime
    /\ UNCHANGED << cache, now, last_scan >>

\* time passes
Tick ==
    /\ now < MaxTime
    /\ now' = now + 1
    /\ UNCHANGED << tree, folder_mtime, cache, last_scan >>

\* lines 64-75: the result is served from the cache (pickle.load succeeds)
ScanFromCache(filters) ==
    /\ CacheValid
    /\ last_scan' = [done |-> TRUE, use_cache |-> TRUE, filters |-> filters, tree |-> tree,
                     result |-> apply_filters(cache.files, filters), used_cache |-> TRUE]
    /\ UNCHANGED << tree, folder_mtime, cache, now >>

\* lines 104-110 with the filtered list written to the cache
ScanFresh_CachesFiltered(filters, use_cache, read_failed) ==
    /\ ~use_cache => ~read_failed
    /\ (use_cache /\ CacheValid) => read_failed
    /\ last_scan' = [done |-> TRUE, use_cache |-> use_cache, filters |-> filters,
                     tree |-> tree, result |-> apply_filters(Walk, filters),
                     used_cache |-> FALSE]
    /\ IF use_cache
       THEN \E d1, d2 \in {0, 1} :
               /\ now + d1 + d2 <= MaxTime
               /\ folder_mtime' = IF cache.present THEN folder_mtime ELSE now + d1
               /\ cache' = [present |-> TRUE, mtime |-> now + d1 + d2, files |-> apply_filters(Walk, filters)]
               /\ now' = now + d1 + d2
       ELSE UNCHANGED << folder_mtime, cache, now >>
    /\ UNCHANGED tree

\* lines 77-112: the walk; with use_cache the cache file is written: creating it
\* stamps the folder (at t1), closing it stamps the cache file (at t2 >= t1).
\* The walk is made when use_cache is off, when the cache is not valid, or when
\* reading the cache raised (read_failed).
ScanFresh(filters, use_cache, read_failed) ==
    /\ ~use_cache => ~read_failed
    /\ (use_cache /\ CacheValid) => read_failed
    /\ last_scan' = [done |-> TRUE, use_cache |-> use_cache, filters |-> filters,
                     tree |-> tree, result |-> apply_filters(Walk, filters),
                     used_cache |-> FALSE]
    /\ IF use_cache
       THEN \E d1, d2 \in {0, 1} :
               /\ now + d1 + d2 <= MaxTime
               /\ folder_mtime' = IF cache.present THEN folder_mtime ELSE now + d1
               /\ cache' = [present |-> TRUE, mtime |-> now + d1 + d2, files |-> Walk]
               /\ now' = now + d1 + d2
       ELSE UNCHANGED << folder_mtime, cache, now >>
    /\ UNCHANGED tree

NextScan ==
    \/ (\E f \in FileUniverse : AddFile(f)) /\ UNCHANGED << copyVars, selVars, extraVars >>
    \/ (\E f \in FileUniverse : RemoveFile(f)) /\ UNCHANGED << copyVars, selVars, extraVars >>
    \/ Tick /\ UNCHANGED << copyVars, selVars, extraVars >>
    \/ (\E fl \in FilterChoices : ScanFromCache(fl)) /\ UNCHANGED << copyVars, selVars, extraVars >>
    \/ (\E fl \in FilterChoices, uc \in BOOLEAN, rf \in BOOLEAN : ScanFresh(fl, uc, rf))
          /\ UNCHANGED << copyVars, selVars, extraVars >>

SpecScan == InitScan /\ [][NextScan]_vars

\* the entries of the media files of a tree
MediaEntries(t) == { FileInfo(f) : f \in { g \in t : Lower(g.suffix) \in media_extensions } }

\* C9: with use_cache, a scan never returns cached entries that differ from the media
\* files reachable at the time of the scan.
C9_NoStaleCache ==
    (last_scan.done /\ last_scan.use_cache)
    => last_scan.result = apply_filters(MediaEntries(last_scan.tree), last_scan.filters)

\* C12: a fresh scan (no valid cache) with no filter returns exactly the regular
\* files, at any depth, whose extension compared case-insensitively is in the
\* known-media set; the cache marker file is in the result of no scan.
C12_ScanExact ==
    last_scan.done
    => /\ (~last_scan.used_cache /\ last_scan.filters = {})
          => { e.path : e \in last_scan.result }
               = { f \in last_scan.tree :
                     \E x \in media_extensions : Lower(f.suffix) = Lower(x) }
       /\ CacheFile \notin { e.path : e \in last_scan.result }

\* a fresh unfiltered scan of a tree that holds the cache marker, a media file with
\* an upper-case extension below the top level and a file that is no media file
C12_Witness ==
    /\ last_scan.done /\ ~last_scan.used_cache /\ ~last_scan.use_cache
    /\ last_scan.filters = {}
    /\ cache.present
    /\ File(2, "b", ".JPG") \in last_scan.tree
    /\ File(1, "n", ".txt") \in last_scan.tree
    /\ \E e \in last_scan.result : e.path = File(2, "b", ".JPG")

\* C26: the cache always holds the unfiltered entry list: a scan with a filter F1
\* that writes the cache stores the unfiltered list, and a scan with a filter F2 served
\* from that cache returns what F2 gives on the unfiltered result of the first scan.
C26_CacheUnfiltered ==
    /\ []( (last_scan.done /\ last_scan.use_cache /\ ~last_scan.used_cache)
           => cache.files = MediaEntries(last_scan.tree) )
    /\ [][( /\ last_scan.done /\ last_scan.use_cache /\ ~last_scan.used_cache
            /\ last_scan'.used_cache )
          => last_scan'.result
               = { e \in MediaEntries(last_scan.tree) :
                     last_scan'.filters = {} \/ e.extension \in last_scan'.filters }]_vars

\* a scan with the filter .jpg has written the cache, and the cache holds an entry
\* that the filter excludes
C26_Witness ==
    /\ last_scan.done /\ last_scan.use_cache /\ ~last_scan.used_cache
    /\ last_scan.filters = {".jpg"}
    /\ cache.present
    /\ \E e \in cache.files : e.extension = ".mp4"

\* C27: a scan serves its result from the cache only when caching is requested, the
\* cache file exists and its modification time is strictly newer than the folder's;
\* in every other case (no cache, equal or older time, failed read) the folder is
\* walked again and the result is the filtered walk of the tree as it is.
C27_CacheOnlyWhenNewer ==
    [][ last_scan' # last_scan
        => IF last_scan'.used_cache
           THEN /\ last_scan'.use_cache
                /\ cache.present
                /\ cache.mtime > folder_mtime
           ELSE last_scan'.result
                  = { e \in MediaEntries(tree) :
                        last_scan'.filters = {} \/ e.extension \in last_scan'.filters } ]_vars

\* a scan has been served from a cache that is strictly newer than the folder
\* (a cache hit changes neither of the two times)
C27_Witness ==
    /\ last_scan.done /\ last_scan.used_cache /\ last_scan.use_cache
    /\ cache.present
    /\ cache.mtime > folder_mtime
    /\ last_scan.result # {}

\* C28: every entry a scan returns has the media type image or video, decided by its
\* extension alone (.gif, .svg, .ico, .heic and .heif are images); no entry is typed
\* other or unknown.
C28_TypeImageOrVideo ==
    last_scan.done
    => \A e \in last_scan.result :
          /\ e.type \in {"image", "video"}
          /\ e.extension \in {".jpg", ".jpeg", ".png", ".gif", ".bmp", ".tiff", ".webp",
                              ".svg", ".ico", ".heic", ".heif"} => e.type = "image"
          /\ e.extension \in {".mp4", ".mov", ".avi", ".mkv", ".webm", ".m4v", ".flv"}
               => e.type = "video"


(***************************************************************************)
(* randomly_select_and_copy_files, lines 593-628: the balanced selection   *)
(* by count.  Only the number of entries taken from each folder is kept:   *)
(* random.sample(files, take) returns take distinct entries of the folder. *)
(***************************************************************************)
RECURSIVE Sum(_)
Sum(seq) == IF seq = << >> THEN 0 ELSE Head(seq) + Sum(Tail(seq))

Min(a, b) == IF a <= b THEN a ELSE b

\* len(source_folders)
NumFolders == Len(pools)

\* lines 559-578: folder_files gets its keys in the order in which the concurrent
\* scans complete (as_completed), which is any order of the source folders
ScanOrders(n) == { p \in [1..n -> 1..n] : \A a, b \in 1..n : a # b => p[a] # p[b] }

InitSelect ==
    /\ \E n \in 1..MaxDirs : pools \in [1..n -> 0..MaxPool]
    /\ scan_order \in ScanOrders(Len(pools))
    /\ requested \in 0..MaxRequested
    /\ num_files = requested
    /\ sel_pc = "start"
    /\ idx = 0
    /\ remaining = 0
    /\ taken = [d \in 1..Len(pools) |-> 0]
    /\ files_per_folder = 0
    /\ CopyOff
    /\ ScanOff
    /\ ExtraOff

\* lines 593-614: return when no file was found; clamp num_files to the number of
\* files found; the share of a folder and the remainder
SelectStart ==
    /\ sel_pc = "start"
    /\ IF Sum(pools) = 0
       THEN /\ sel_pc' = "done"
            /\ UNCHANGED << num_files, files_per_folder, remaining, idx >>
       ELSE LET n == IF Sum(pools) < requested THEN Sum(pools) ELSE requested
            IN /\ num_files' = n
               /\ files_per_folder' = n \div NumFolders
               /\ remaining' = n % NumFolders
               /\ idx' = 1
               /\ sel_pc' = "loop"
    /\ UNCHANGED << pools, requested, taken >>

\* the loop body without "remaining -= 1": every folder is given the extra entry
TakeFromFolder_NoDecrement ==
    /\ sel_pc = "loop"
    /\ IF pools[idx] > 0
       THEN taken' = [taken EXCEPT ![idx] =
                        Min(files_per_folder + (IF remaining > 0 THEN 1 ELSE 0), pools[idx])]
       ELSE UNCHANGED taken
    /\ idx' = idx + 1
    /\ sel_pc' = IF idx = NumFolders THEN "topup" ELSE "loop"
    /\ UNCHANGED << pools, requested, num_files, files_per_folder, remaining >>

\* lines 616-621: one iteration of the loop over folder_files.items()
TakeFromFolder ==
    /\ sel_pc = "loop"
    /\ IF pools[idx] > 0
       THEN /\ taken' = [taken EXCEPT ![idx] =
                           Min(files_per_folder + (IF remaining > 0 THEN 1 ELSE 0), pools[idx])]
            /\ remaining' = IF remaining > 0 THEN remaining - 1 ELSE remaining
       ELSE UNCHANGED << taken, remaining >>
    /\ idx' = idx + 1
    /\ sel_pc' = IF idx = NumFolders THEN "topup" ELSE "loop"
    /\ UNCHANGED << pools, requested, num_files, files_per_folder >>

\* lines 623-628: when fewer than num_files entries were selected, a random sample of
\* the entries not yet selected is added, whatever folder they lie in
TopUp ==
    /\ sel_pc = "topup"
    /\ LET left == Sum(pools) - Sum(taken)
           additional == IF Sum(taken) < num_files /\ left > 0
                         THEN Min(num_files - Sum(taken), left) ELSE 0
       IN \E add \in [1..NumFolders -> 0..MaxPool] :
             /\ \A d \in 1..NumFolders : add[d] <= pools[d] - taken[d]
             /\ Sum(add) = additional
             /\ taken' = [d \in 1..NumFolders |-> taken[d] + add[d]]
    /\ sel_pc' = "done"
    /\ UNCHANGED << pools, requested, num_files, files_per_folder, remaining, idx >>

NextSelect ==
    \/ SelectStart /\ UNCHANGED << copyVars, scanVars, extraVars, scan_order >>
    \/ TakeFromFolder /\ UNCHANGED << copyVars, scanVars, extraVars, scan_order >>
    \/ TopUp /\ UNCHANGED << copyVars, scanVars, extraVars, scan_order >>

SpecSelect == InitSelect /\ [][NextSelect]_vars

\* floor(n/N), n mod N and the largest share ceil(n/N) of the requested count
Base == requested \div NumFolders
Extra == requested % NumFolders
Share == Base + (IF Extra > 0 THEN 1 ELSE 0)

C24_ExtraInInputOrder ==
    (sel_pc = "topup" /\ \A d \in 1..NumFolders : pools[d] >= Share)
    => \A d \in 1..NumFolders :
          taken[d] = Base + (IF scan_order[d] <= Extra THEN 1 ELSE 0)


-----------------------------------------------------------------------------
\* select_by_total_size (SpecSize)

MaxEntries == 3
MaxSize == 2
MaxTarget == 5

\* the parent folders of the entries: two source folders and a subfolder of one
ParentFolders == {"A", "A/sub", "B"}

Entry(folder, size) == [parent |-> folder, size |-> size]

EntryUniverse == { Entry(g, n) : g \in ParentFolders, n \in 0..MaxSize }

RECURSIVE TotalSize(_)
TotalSize(entries) ==
    IF entries = {} THEN 0
    ELSE LET e == CHOOSE x \in entries : TRUE
         IN e.size + TotalSize(entries \ {e})

\* line 263-266: folder_groups, keyed by file_data['path'].parent
folder_groups(g) == { e \in size_files : e.parent = g }
GroupKeys == { e.parent : e \in size_files }

\* the caller passes a non-empty list (lines 581-583 and 597-599 return before)
InitSize ==
    /\ size_files \in { fs \in SUBSET EntryUniverse : Cardinality(fs) \in 1..MaxEntries }
    /\ target_bytes \in 0..MaxTarget
    /\ balanced \in BOOLEAN
    /\ size_pc = "start"
    /\ folders_left = {}
    /\ todo = {}
    /\ running_size = 0
    /\ size_per_folder = 0
    /\ size_selected = {}
    /\ last_size = 0
    /\ ParseOff
    /\ CadOff
    /\ MultiOff
    /\ CopyOff
    /\ ScanOff
    /\ SelectOff

\* lines 261-270 (balanced) and 282-286 (unbalanced): set up the loop
SizeStart ==
    /\ size_pc = "start"
    /\ IF balanced
       THEN /\ size_per_folder' = target_bytes \div Cardinality(GroupKeys)
            /\ folders_left' = GroupKeys
            /\ todo' = {}
            /\ size_pc' = "folders"
       ELSE /\ todo' = size_files
            /\ size_pc' = "greedy"
            /\ UNCHANGED << size_per_folder, folders_left >>
    /\ UNCHANGED << size_files, target_bytes, balanced, running_size, size_selected,
                    last_size >>

\* lines 271-273: the next key of folder_groups (the dictionary keeps the order in
\* which the folders first occur in files_data, which is any order), or line 295
NextFolder ==
    /\ size_pc = "folders"
    /\ IF folders_left = {}
       THEN /\ size_pc' = "done"
            /\ UNCHANGED << folders_left, todo, running_size >>
       ELSE \E g \in folders_left :
               /\ folders_left' = folders_left \ {g}
               /\ todo' = folder_groups(g)
               /\ running_size' = 0
               /\ size_pc' = "folder"
    /\ UNCHANGED << size_files, target_bytes, balanced, size_per_folder, size_selected,
                    last_size >>

Smallest(entries) == CHOOSE e \in entries : \A x \in entries : e.size <= x.size

\* lines 275-280: one iteration over sorted(files, key=size) with the overshooting
\* entry added as long as the folder has not reached its share
FolderStep_Overshoot ==
    /\ size_pc = "folder"
    /\ IF todo = {}
       THEN /\ size_pc' = "folders"
            /\ UNCHANGED << todo, running_size, size_selected, last_size >>
       ELSE LET file_data == Smallest(todo)
                new_size == IF running_size < size_per_folder
                            THEN running_size + file_data.size ELSE running_size
            IN /\ running_size' = new_size
               /\ size_selected' = IF running_size < size_per_folder
                                   THEN size_selected \cup {file_data} ELSE size_selected
               /\ last_size' = IF running_size < size_per_folder
                               THEN file_data.size ELSE last_size
               /\ IF new_size >= size_per_folder
                  THEN size_pc' = "folders" /\ todo' = {}
                  ELSE size_pc' = "folder" /\ todo' = todo \ {file_data}
    /\ UNCHANGED << size_files, target_bytes, balanced, folders_left, size_per_folder >>

\* lines 275-280: one iteration over sorted(files, key=size)
FolderStep ==
    /\ size_pc = "folder"
    /\ IF todo = {}
       THEN /\ size_pc' = "folders"
            /\ UNCHANGED << todo, running_size, size_selected, last_size >>
       ELSE LET file_data == Smallest(todo)
                fits == running_size + file_data.size <= size_per_folder
                new_size == IF fits THEN running_size + file_data.size ELSE running_size
            IN /\ running_size' = new_size
               /\ size_selected' = IF fits THEN size_selected \cup {file_data}
                                   ELSE size_selected
               /\ last_size' = IF fits THEN file_data.size ELSE last_size
               /\ IF new_size >= size_per_folder
                  THEN size_pc' = "folders" /\ todo' = {}
                  ELSE size_pc' = "folder" /\ todo' = todo \ {file_data}
    /\ UNCHANGED << size_files, target_bytes, balanced, folders_left, size_per_folder >>

\* lines 288-293: one iteration over the shuffled list (any entry not yet reached)
GreedyStep ==
    /\ size_pc = "greedy"
    /\ IF todo = {}
       THEN /\ size_pc' = "done"
            /\ UNCHANGED << todo, running_size, size_selected, last_size >>
       ELSE \E file_data \in todo :
               LET fits == running_size + file_data.size <= target_bytes
                   new_size == IF fits THEN running_size + file_data.size
                               ELSE running_size
               IN /\ running_size' = new_size
                  /\ size_selected' = IF fits THEN size_selected \cup {file_data}
                                      ELSE size_selected
                  /\ last_size' = IF fits THEN file_data.size ELSE last_size
                  /\ IF new_size >= target_bytes
                     THEN size_pc' = "done" /\ todo' = {}
                     ELSE size_pc' = "greedy" /\ todo' = todo \ {file_data}
    /\ UNCHANGED << size_files, target_bytes, balanced, folders_left, size_per_folder >>

NextSize ==
    \/ SizeStart /\ UNCHANGED << copyVars, scanVars, selVars, parseVars, cadVars, multiVars >>
    \/ NextFolder /\ UNCHANGED << copyVars, scanVars, selVars, parseVars, cadVars, multiVars >>
    \/ FolderStep /\ UNCHANGED << copyVars, scanVars, selVars, parseVars, cadVars, multiVars >>
    \/ GreedyStep /\ UNCHANGED << copyVars, scanVars, selVars, parseVars, cadVars, multiVars >>

SpecSize == InitSize /\ [][NextSize]_vars

\* C11: in both modes of select_by_total_size, for every list of entries and every
\* target, the total size of the selection never exceeds the target by more than the
\* size of the entry accepted last; in balanced mode the total is at most the target.
C11_WithinTarget ==
    /\ TotalSize(size_selected) <= target_bytes + last_size
    /\ balanced => TotalSize(size_selected) <= target_bytes

\* a finished balanced selection over two folders whose shares leave a remainder,
\* with an entry accepted and an entry that did not fit left out
C11_Witness ==
    /\ size_pc = "done" /\ balanced
    /\ Cardinality(GroupKeys) = 2
    /\ target_bytes % 2 = 1
    /\ size_selected # {}
    /\ size_selected # size_files
    /\ TotalSize(size_files) > target_bytes

\* the source folders passed in, and the source folder a parent folder lies in
SourceFolders == {"A", "B"}
SourceOf(g) == IF g = "A/sub" THEN "A" ELSE g

\* C25: in the balanced selection by size the target is split per source folder:
\* with dirCount source folders, the entries selected from one source folder, files
\* in its subfolders included, have a total size of at most target div dirCount
\* (stated for a finished selection in which every source folder holds an entry).
C25_SharePerSourceFolder ==
    ( /\ size_pc = "done" /\ balanced
      /\ \A src \in SourceFolders : \E e \in size_files : SourceOf(e.parent) = src )
    => \A src \in SourceFolders :
          TotalSize({ e \in size_selected : SourceOf(e.parent) = src })
             <= target_bytes \div Cardinality(SourceFolders)


-----------------------------------------------------------------------------
\* parse_size and the size constraints of apply_filters (SpecParse)

MaxLen == 4

Digits == {"0", "1", "2"}
Chars == Digits \cup {"B", "K", "M", "G", "T", "k", "b", "x", " "}

Strings == UNION { [1..n -> Chars] : n \in 0..MaxLen }

\* str.upper() on one character
UpperChar(c) ==
    CASE c = "k" -> "K"
      [] c = "b" -> "B"
      [] c = "x" -> "X"
      [] OTHER -> c

Upper(str) == [k \in 1..Len(str) |-> UpperChar(str[k])]

\* str.strip(): leading and trailing white space removed
RECURSIVE Strip(_)
Strip(str) ==
    IF str = << >> THEN str
    ELSE IF Head(str) = " " THEN Strip(Tail(str))
    ELSE IF str[Len(str)] = " " THEN Strip(SubSeq(str, 1, Len(str) - 1))
    ELSE str

EndsWith(str, suffix) ==
    /\ Len(str) >= Len(suffix)
    /\ SubSeq(str, Len(str) - Len(suffix) + 1, Len(str)) = suffix

DigitValue(c) == CASE c = "0" -> 0 [] c = "1" -> 1 [] c = "2" -> 2

RECURSIVE DigitsValue(_)
DigitsValue(str) ==
    IF str = << >> THEN 0
    ELSE 10 * DigitsValue(SubSeq(str, 1, Len(str) - 1)) + DigitValue(str[Len(str)])

\* float(x) and int(x) over these characters: white space around the number is
\* dropped, the rest must be one or more digits; anything else is a ValueError
IsNumber(str) ==
    LET t == Strip(str) IN t # << >> /\ \A k \in 1..Len(t) : t[k] \in Digits
NumberOf(str) == DigitsValue(Strip(str))

\* lines 172-178: the dictionary multipliers in its order, 1024**pow for each suffix
multipliers ==
    << [suffix |-> <<"B">>, pow |-> 0],
       [suffix |-> <<"K", "B">>, pow |-> 1],
       [suffix |-> <<"M", "B">>, pow |-> 2],
       [suffix |-> <<"G", "B">>, pow |-> 3],
       [suffix |-> <<"T", "B">>, pow |-> 4] >>

NoReturn == [returned |-> FALSE, value |-> Bytes(0, 0, FALSE)]

\* lines 180-186: the loop over multipliers.items() from its k-th item on: the first
\* suffix the string ends with decides; when float() raises, the loop is left
RECURSIVE SuffixLoop(_, _)
SuffixLoop(str, k) ==
    IF k > Len(multipliers) THEN NoReturn
    ELSE IF EndsWith(str, multipliers[k].suffix)
    THEN LET number == SubSeq(str, 1, Len(str) - Len(multipliers[k].suffix))
         IN IF IsNumber(number)
            THEN [returned |-> TRUE,
                  value |-> Bytes(NumberOf(number), multipliers[k].pow, FALSE)]
            ELSE NoReturn
    ELSE SuffixLoop(str, k + 1)

\* parse_size, lines 169-192
parse_size(str) ==
    LET upper == Strip(Upper(str))
        loop == SuffixLoop(upper, 1)
    IN IF loop.returned THEN loop.value
       ELSE IF IsNumber(upper) THEN Bytes(NumberOf(upper), 0, FALSE)
       ELSE Bytes(0, 0, TRUE)

InitParse ==
    /\ size_str \in Strings
    /\ parse_pc = "start"
    /\ parse_result = Bytes(0, 0, FALSE)
    /\ constraint = "none"
    /\ other_size = << >>
    /\ filter_result = {}
    /\ SizeOff
    /\ CadOff
    /\ MultiOff
    /\ CopyOff
    /\ ScanOff
    /\ SelectOff

\* a call of parse_size(size_str)
ParseSize ==
    /\ parse_pc = "start"
    /\ parse_result' = parse_size(size_str)
    /\ parse_pc' = "parsed"
    /\ UNCHANGED << size_str, constraint, other_size, filter_result >>

\* size >= n * 1024^pow and size <= n * 1024^pow, by repeated division
RECURSIVE AtLeast(_, _, _)
AtLeast(size, n, pow) ==
    IF pow = 0 THEN size >= n ELSE AtLeast(size \div 1024, n, pow - 1)
RECURSIVE AtMost(_, _, _)
AtMost(size, n, pow) ==
    IF pow = 0 THEN size <= n ELSE AtMost((size + 1023) \div 1024, n, pow - 1)

\* apply_filters, lines 139-146: the size constraints; a key is applied when it is
\* set to a non-empty string
apply_size_filters(files_data, min_size, max_size) ==
    LET min_bytes == parse_size(min_size)
        max_bytes == parse_size(max_size)
        above == IF min_size # << >>
                 THEN { f \in files_data : AtLeast(f.size, min_bytes.n, min_bytes.pow) }
                 ELSE files_data
    IN IF max_size # << >>
       THEN { f \in above : AtMost(f.size, max_bytes.n, max_bytes.pow) }
       ELSE above

\* the entries the filter is applied to, and the strings of the other size key
FilterFiles == { Entry("A", n) : n \in 0..MaxSize }
OtherSizes == { << >>, <<"1">> }

\* a call of apply_filters with size_str as min_size or as max_size
ApplyFilters(key, other) ==
    /\ parse_pc = "start"
    /\ constraint' = key
    /\ other_size' = other
    /\ filter_result' = IF key = "min_size"
                        THEN apply_size_filters(FilterFiles, size_str, other)
                        ELSE apply_size_filters(FilterFiles, other, size_str)
    /\ parse_pc' = "filtered"
    /\ UNCHANGED << size_str, parse_result >>

NextParse ==
    \/ ParseSize /\ UNCHANGED << copyVars, scanVars, selVars, sizeVars, cadVars, multiVars >>
    \/ (\E key \in {"min_size", "max_size"}, other \in OtherSizes : ApplyFilters(key, other))
          /\ UNCHANGED << copyVars, scanVars, selVars, sizeVars, cadVars, multiVars >>

SpecParse == InitParse /\ [][NextParse]_vars


\* x = n * 1024^d, by repeated division
RECURSIVE ScaledEq(_, _, _)
ScaledEq(x, n, d) ==
    IF d = 0 THEN x = n ELSE x % 1024 = 0 /\ ScaledEq(x \div 1024, n, d - 1)

\* the returned value is n * 1024^pow
ReturnsBytes(n, pow) ==
    IF parse_result.pow <= pow
    THEN ScaledEq(parse_result.n, n, pow - parse_result.pow)
    ELSE ScaledEq(n, parse_result.n, parse_result.pow - pow)

AllDigits(str) == str # << >> /\ \A k \in 1..Len(str) : str[k] \in Digits

\* C17: parse_size matches the unit suffix longest-first and case-insensitively: for
\* every non-negative integer n, "nB" gives n, "nKB" n*1024, "nMB" n*1024^2, "nGB"
\* n*1024^3, "nTB" n*1024^4 and "n" gives n; "B" is never matched in place of "KB",
\* "MB", "GB" or "TB".
C17_ParseSizeUnits ==
    parse_pc = "parsed"
    => /\ AllDigits(size_str) => ReturnsBytes(DigitsValue(size_str), 0)
       /\ \A m \in 1..Len(multipliers) :
             LET unit == multipliers[m].suffix
                 digits == SubSeq(size_str, 1, Len(size_str) - Len(unit))
             IN (EndsWith(Upper(size_str), unit) /\ AllDigits(digits))
                => ReturnsBytes(DigitsValue(digits), multipliers[m].pow)

\* a size string is well formed when it is a number, or a number followed by a unit,
\* in any case and with white space around it
WellFormed(str) ==
    LET t == Strip(Upper(str))
    IN \/ IsNumber(t)
       \/ \E m \in 1..Len(multipliers) :
             /\ EndsWith(t, multipliers[m].suffix)
             /\ IsNumber(SubSeq(t, 1, Len(t) - Len(multipliers[m].suffix)))

\* C18: when the min_size or max_size of a filter is a malformed size string, the
\* constraint is taken as not applied: the result is the result of the same filter
\* without that constraint.
C18_MalformedNotApplied ==
    (parse_pc = "filtered" /\ size_str # << >> /\ ~WellFormed(size_str))
    => filter_result = IF constraint = "min_size"
                       THEN apply_size_filters(FilterFiles, << >>, other_size)
                       ELSE apply_size_filters(FilterFiles, other_size, << >>)


-----------------------------------------------------------------------------
\* The checkpoints of copy_files_parallel (SpecCadence).  The tasks are told apart
\* only by how they end, so the loop of lines 353-378 is followed by counts.

MaxTasks == 21

\* lines 323-355: remaining_files is not empty and every file is submitted
InitCadence ==
    /\ n_remaining \in 1..MaxTasks
    /\ resume_set \in BOOLEAN
    /\ n_queued = n_remaining
    /\ n_ok = 0
    /\ n_err = 0
    /\ n_done = 0
    /\ n_errors = 0
    /\ cad_pc = "collect"
    /\ saves = {}
    /\ SizeOff
    /\ ParseOff
    /\ MultiOff
    /\ CopyOff
    /\ ScanOff
    /\ SelectOff

\* copy_single_file, lines 330-349: a task ends with a destination path or an error
TaskEnds(ok) ==
    /\ n_queued > 0
    /\ n_queued' = n_queued - 1
    /\ IF ok THEN n_ok' = n_ok + 1 /\ UNCHANGED n_err
             ELSE n_err' = n_err + 1 /\ UNCHANGED n_ok
    /\ UNCHANGED << n_remaining, resume_set, n_done, n_errors, cad_pc, saves >>

\* lines 356-371: the main thread takes the result of an ended task
TakeResult(ok) ==
    /\ cad_pc = "collect"
    /\ IF ok THEN n_ok > 0 /\ n_ok' = n_ok - 1 /\ UNCHANGED << n_err, n_errors >>
             ELSE n_err > 0 /\ n_err' = n_err - 1 /\ n_errors' = n_errors + 1
                  /\ UNCHANGED n_ok
    /\ n_done' = n_done + 1
    /\ cad_pc' = IF IsCheckpoint(n_done + 1, n_remaining) /\ resume_set THEN "save"
                 ELSE IF n_done + 1 = n_remaining THEN "returned"
                 ELSE "collect"
    /\ UNCHANGED << n_remaining, resume_set, n_queued, saves >>

\* lines 372-378: save_operation_state; then the loop goes on or ends (line 380)
SaveState ==
    /\ cad_pc = "save"
    /\ saves' = saves \cup {n_done}
    /\ cad_pc' = IF n_done = n_remaining THEN "returned" ELSE "collect"
    /\ UNCHANGED << n_remaining, resume_set, n_queued, n_ok, n_err, n_done, n_errors >>

NextCadence ==
    \/ (\E ok \in BOOLEAN : TaskEnds(ok))
          /\ UNCHANGED << copyVars, scanVars, selVars, sizeVars, parseVars, multiVars >>
    \/ (\E ok \in BOOLEAN : TakeResult(ok))
          /\ UNCHANGED << copyVars, scanVars, selVars, sizeVars, parseVars, multiVars >>
    \/ SaveState /\ UNCHANGED << copyVars, scanVars, selVars, sizeVars, parseVars, multiVars >>

SpecCadence == InitCadence /\ [][NextCadence]_vars

\* C20: with a resume path set, the resume file is written after every 10th
\* completed copy task of the run and after the last one, and at no other
\* completion; a task that ended in an error counts as completed.
C20_CheckpointCadence ==
    resume_set
    => LET completed == IF cad_pc = "save" THEN n_done - 1 ELSE n_done
       IN /\ saves = { k \in 1..completed : k % 10 = 0 \/ k = n_remaining }
          /\ cad_pc = "save" => (n_done % 10 = 0 \/ n_done = n_remaining)

\* a run of 21 tasks, ten or more of them ended in an error, with the checkpoints
\* after the 10th, the 20th and the last completion
C20_Witness ==
    /\ cad_pc = "returned" /\ resume_set
    /\ n_remaining = 21
    /\ n_errors >= 10 /\ n_errors < n_remaining
    /\ saves = {10, 20, 21}


-----------------------------------------------------------------------------
\* copy_files_parallel over a selection long enough for a checkpoint in the middle
\* of the run (SpecPool): the actions of Spec, one operation, the tasks handed to
\* the workers in the order of submission as the queue of the executor does.

MaxFiles == 11

PoolFile(n) == Path("S1", "p", n, 0)
PoolFiles == { PoolFile(n) : n \in 1..MaxFiles }

\* a destination path recorded by an earlier operation over another selection
EarlierPath == Path("dest", "", 0, 0)

InitPool ==
    /\ selected_files = PoolFiles
    /\ preserve_structure = FALSE
    /\ \E again \in BOOLEAN :
          \* a first operation without failure, or an operation that finds the resume
          \* file of an earlier one and has a file it cannot read
          /\ resume = IF again THEN StateFile({EarlierPath}) ELSE NoFile
          /\ unreadable = IF again THEN {PoolFile(2)} ELSE {}
    /\ dry_run = FALSE
    /\ dest_dir = FALSE
    /\ seeded = {}
    /\ disk = [p \in PoolFiles |-> p]
    /\ log = NoLog
    /\ pc = "idle"
    /\ copied_files = {}
    /\ copied_count = 0
    /\ errors = {}
    /\ i = 0
    /\ remaining_files = {}
    /\ task = [f \in selected_files |-> IdleTask(f)]
    /\ created = {}
    /\ copies = 0
    /\ hist = << >>
    /\ ScanOff
    /\ SelectOff
    /\ ExtraOff

\* lines 352-354: a worker takes the task submitted first among those waiting
NextInQueue(f) ==
    task[f].st = "queued"
    => \A g \in remaining_files : g.name < f.name => task[g].st # "queued"

NextPool ==
    \/ StartCopy /\ UNCHANGED << scanVars, selVars, extraVars >>
    \/ (\E f \in selected_files : NextInQueue(f) /\ CheckExists(f))
          /\ UNCHANGED << scanVars, selVars, extraVars, runVars >>
    \/ (\E f \in selected_files : CopyFile(f))
          /\ UNCHANGED << scanVars, selVars, extraVars, runVars >>
    \/ (\E f \in selected_files : Collect(f))
          /\ UNCHANGED << scanVars, selVars, extraVars, runVars >>
    \/ SaveOpen /\ UNCHANGED << scanVars, selVars, extraVars, runVars >>
    \/ SaveWrite /\ UNCHANGED << scanVars, selVars, extraVars, runVars >>

SpecPool == InitPool /\ [][NextPool]_vars


\* the checkpoint after the 10th completion, written over a seeded set while a
\* failed task was counted and another task is still with a worker
C21_Witness ==
    /\ pc = "collect" /\ i = 10
    /\ seeded # {}
    /\ errors # {}
    /\ resume = StateFile(seeded \cup Processed)
    /\ \E g \in remaining_files : task[g].st \in {"check", "copy"}


\* ---------------------------------------------------------------------------
\* The concurrent scan of the source folders (randomly_select_and_copy_files,
\* lines 551-595) for more than one source folder.
\* ---------------------------------------------------------------------------

MaxSources == 3
MaxFound == 1

SourceIds == 1..MaxSources

\* how a call of collect_media_files_optimized ends:
\*   "ok"          the list of line 112
\*   "walk_failed" an exception inside the walk, caught at lines 100-102: returns []
\*   "raised"      an exception outside its try blocks (folder.exists() of line 60 on a
\*                 name the system rejects, apply_filters of line 112) leaves the call
ScanOutcomes == {"ok", "walk_failed", "raised"}

ScanEntry(d, k) == [folder |-> d, name |-> k]

\* the value collect_media_files_optimized returns for folder d when it returns
ScanReturn(d) ==
    IF scan_outcome[d] = "ok" THEN { ScanEntry(d, k) : k \in 1..scan_found[d] } ELSE {}

InitMulti ==
    /\ scan_outcome \in [SourceIds -> ScanOutcomes]
    /\ scan_found \in [SourceIds -> 0..MaxFound]
    /\ pending_scans = SourceIds
    /\ folder_files = << >>
    /\ all_files_data = {}
    /\ stat_i = 0
    /\ run_pc = "scanning"
    /\ CopyOff
    /\ ScanOff
    /\ SelectOff
    /\ SizeOff /\ ParseOff /\ CadOff

\* lines 566-573: as_completed yields the future of folder d; future.result() either
\* returns the list, which is stored, or raises, which is printed and stores nothing
FutureDone(d) ==
    /\ run_pc = "scanning"
    /\ d \in pending_scans
    /\ pending_scans' = pending_scans \ {d}
    /\ IF scan_outcome[d] = "raised"
       THEN UNCHANGED << folder_files, all_files_data >>
       ELSE /\ folder_files' = [x \in DOMAIN folder_files \cup {d} |->
                                   IF x = d THEN ScanReturn(d) ELSE folder_files[x]]
            /\ all_files_data' = all_files_data \cup ScanReturn(d)
    /\ stat_i' = IF pending_scans' = {} THEN 1 ELSE stat_i
    /\ run_pc' = IF pending_scans' = {} THEN "stats" ELSE run_pc
    /\ UNCHANGED << scan_outcome, scan_found >>

\* lines 585-590: the statistics of one source folder; folder_files[folder] raises
\* KeyError for a folder without a key, which ends randomly_select_and_copy_files
FolderStats ==
    /\ run_pc = "stats"
    /\ stat_i <= MaxSources
    /\ IF stat_i \in DOMAIN folder_files
       THEN /\ stat_i' = stat_i + 1
            /\ run_pc' = IF stat_i' > MaxSources THEN "count" ELSE run_pc
       ELSE /\ run_pc' = "aborted"
            /\ UNCHANGED stat_i
    /\ UNCHANGED << scan_outcome, scan_found, pending_scans, folder_files, all_files_data >>

\* lines 592-595: return 0 without files, selection otherwise
CountFiles ==
    /\ run_pc = "count"
    /\ run_pc' = IF all_files_data = {} THEN "return_0" ELSE "select"
    /\ UNCHANGED << scan_outcome, scan_found, pending_scans, folder_files, all_files_data,
                    stat_i >>

NextMulti ==
    \/ (\E d \in SourceIds : FutureDone(d))
          /\ UNCHANGED << copyVars, scanVars, selVars, sizeVars, parseVars, cadVars >>
    \/ FolderStats /\ UNCHANGED << copyVars, scanVars, selVars, sizeVars, parseVars, cadVars >>
    \/ CountFiles /\ UNCHANGED << copyVars, scanVars, selVars, sizeVars, parseVars, cadVars >>

SpecMulti == InitMulti /\ [][NextMulti]_vars

ScanFailed(d) == scan_outcome[d] \in {"walk_failed", "raised"}

\* C29: when the scan of one of several source folders fails, that folder
\* contributes an empty list, the other folders contribute their entries, and the run
\* goes on to the selection with the union of the successful scans; it does not abort.
C29_FailedScanIsolated ==
    /\ run_pc # "aborted"
    /\ run_pc \in {"stats", "count", "select", "return_0"}
       => /\ DOMAIN folder_files = SourceIds
          /\ \A d \in SourceIds :
                folder_files[d] = IF ScanFailed(d) THEN {}
                                  ELSE { ScanEntry(d, k) : k \in 1..scan_found[d] }
          /\ all_files_data
               = { e \in { ScanEntry(d, k) : d \in SourceIds, k \in 1..MaxFound } :
                     ~ScanFailed(e.folder) /\ e.name <= scan_found[e.folder] }


\* ---------------------------------------------------------------------------
\* One call of copy_files_parallel after the other, with fair scheduling of the
\* worker threads and of the main thread (lines 352-380).  A call ends by its
\* return or by the process being stopped.
\* ---------------------------------------------------------------------------

InitCall == Init /\ ~dry_run

\* a step of a worker thread of the ThreadPoolExecutor
WorkerStep ==
    /\ \E f \in selected_files : CheckExists(f) \/ CopyFile(f)
    /\ UNCHANGED << scanVars, selVars, extraVars, runVars >>

\* a step of the main thread inside the loop over as_completed
MainStep ==
    /\ \/ \E f \in selected_files : Collect(f)
       \/ SaveOpen
       \/ SaveWrite
    /\ UNCHANGED << scanVars, selVars, extraVars, runVars >>

NextCall ==
    \/ StartCopy /\ UNCHANGED << scanVars, selVars, extraVars >>
    \/ WorkerStep
    \/ MainStep
    \/ Interrupt /\ UNCHANGED << scanVars, selVars, extraVars, runVars >>

\* the executor runs every submitted task and the main thread is not starved
SpecCall == InitCall /\ [][NextCall]_vars /\ WF_vars(WorkerStep) /\ WF_vars(MainStep)

\* C31: every copy call terminates: with fair scheduling a running call reaches its
\* return (unless the process is stopped); at the return every submitted file has
\* been taken once, as a success or as an error, so that the successes of the call
\* plus its errors are the submitted files; and the suffix loop of a worker tries no
\* more candidate names than there are files in the destination.
C31_CopyTerminates ==
    /\ PoolAlive ~> (pc \in {"returned", "idle"})
    /\ []( (pc = "returned" /\ remaining_files # {})
           => /\ \A f \in remaining_files : task[f].st = "collected"
              /\ errors \subseteq remaining_files
              /\ \A f \in remaining_files \ errors : task[f].dest \in copied_files
              /\ (copied_count - Cardinality(seeded)) + Cardinality(errors)
                   = Cardinality(remaining_files) )
    /\ []( PoolAlive
           => \A f \in remaining_files : task[f].dest.k <= Cardinality(DestFiles) )

\* a call has returned with a success stored under a suffixed name and with an error
C31_Witness ==
    /\ pc = "returned"
    /\ errors # {}
    /\ \E f \in remaining_files \ errors : task[f].dest.k >= 1 /\ disk[task[f].dest] = f

=============================================================================
